---- MODULE Spec2Model ----
(***************************************************************************)
(* State-machine model of src/script.js (project-groot, flood-incident     *)
(* reporting demo).  Every handler of the script is one action; browser    *)
(* callbacks (geolocation result, setTimeout, setInterval) are actions of  *)
(* their own, because JavaScript runs each callback to completion on one   *)
(* thread.  Calls into the rendering collaborator (DOM class toggles, map  *)
(* tiles, innerHTML) carry no program state and are left out, except the   *)
(* order of the cards renderAdminFeed produces and the alerts a handler    *)
(* raises.                                                                 *)
(*                                                                         *)
(* Coordinates are integers in units of 1e-4 degree (the precision the     *)
(* script displays with toFixed(4)); accuracies are metres.                *)
(***************************************************************************)
EXTENDS Integers, Sequences, FiniteSets, TLC

\* ---------------------------------------------------------------- bounds
MaxReports == 3        \* submissions explored
MaxClock == 2          \* distinct values Date.now() takes
MaxGeoRequests == 1    \* getCurrentPosition requests in flight
MaxSensorTimers == 1   \* setTimeout sensor checks in flight
MaxFired == 2          \* cap on the notification counter of one watch

\* ------------------------------------------------------ program constants
NULL == -1                      \* JavaScript null (no coordinate is negative here)
DefaultLat == 145995            \* 14.5995
DefaultLng == 1209842           \* 120.9842
DefaultAccuracy == 15
PickerCenterLat == 128797       \* 12.8797
PickerCenterLng == 1217740      \* 121.774
ManualAccuracy == 0
NoMarker == [lat |-> NULL, lng |-> NULL]   \* manualMarker = null

\* ------------------------------------------------------------ input sets
\* Results the geolocation provider may deliver: {latitude, longitude, accuracy}.
GpsFixes == { [lat |-> 146000, lng |-> 1210000, acc |-> 10] }
\* Positions the user may drag the picker marker to.
PickedCoordinates == { [lat |-> 147000, lng |-> 1211000] }
Severities == {"low", "med", "high"}
VerificationModes == {"photo", "sensor", "sms"}
Statuses == {"PENDING", "DISPATCHED"}
PeopleValues == {"3"}
\* Geolocation results near each of the three sites (the first is GpsFixes').
RoutingFixes ==
  { [lat |-> 146000, lng |-> 1210000, acc |-> 10],
    [lat |-> 146400, lng |-> 1210400, acc |-> 10],
    [lat |-> 145600, lng |-> 1209600, acc |-> 30] }

VARIABLES
  currentView,              \* appState.currentView
  reports,                  \* appState.reports
  currentUserLat,           \* appState.currentUserLat
  currentUserLng,           \* appState.currentUserLng
  currentUserAccuracy,      \* appState.currentUserAccuracy
  selectedSeverityLevel,
  currentVerificationMode,
  sensorVerified,
  manualMarker,             \* NoMarker, or the marker's [lat, lng]
  now,                      \* the value Date.now() returns
  geoRequests,              \* getCurrentPosition requests not yet answered
  sensorTimers,             \* sensor-check timeouts not yet run
  intervals,                \* one entry per setInterval of startUserStatusListener
  feed,                     \* indices into reports, in the order of the rendered cards
  effects,                  \* what the last handler showed: its alert, and whether it rendered the feed
  locationSource,           \* history: who wrote the location last ("none", "auto", "manual")
  evacuationSites,          \* the site list (never assigned after start-up)
  routes                    \* per rendered card, the site findNearestSite returned

vars == << currentView, reports, currentUserLat, currentUserLng, currentUserAccuracy,
           selectedSeverityLevel, currentVerificationMode, sensorVerified, manualMarker,
           now, geoRequests, sensorTimers, intervals, feed, effects, locationSource,
           evacuationSites, routes >>

location == << currentUserLat, currentUserLng, currentUserAccuracy, locationSource >>
form == << selectedSeverityLevel, currentVerificationMode, sensorVerified >>

Quiet == [alert |-> "none", rendered |-> FALSE]

\* ------------------------------------------------------------ helpers
\* Mutant of JsOr: the "|| fallback" is dropped.
JsOrNoFallback(a, b) == a

\* a || b on numbers-or-null: null and 0 are falsy.
JsOr(a, b) == IF a = NULL \/ a = 0 THEN b ELSE a

\* appState.reports.find((r) => r.id === id): index of the first match, 0 if none.
FindIndex(rs, id) ==
  IF \E i \in 1..Len(rs) : rs[i].id = id
  THEN CHOOSE i \in 1..Len(rs) : rs[i].id = id /\ \A j \in 1..(i-1) : rs[j].id # id
  ELSE 0

\* Mutant of UrgencyOf: the "med" branch is lost.
UrgencyOfHighOnly(level) ==
  IF level = "high" THEN "Critical" ELSE "Low"

UrgencyOf(level) ==
  IF level = "high" THEN "Critical"
  ELSE IF level = "med" THEN "Moderate"
  ELSE "Low"

priority(u) ==
  IF u = "Critical" THEN 3 ELSE IF u = "Moderate" THEN 2 ELSE 1

\* Mutant of compare: the operands are swapped (ascending order).
compareAscending(a, b) == priority(a.urgency) - priority(b.urgency)

\* The comparator handed to Array.prototype.sort.
compare(a, b) == priority(b.urgency) - priority(a.urgency)

\* Mutant of InsertSorted: an element also moves past its equals (unstable).
RECURSIVE InsertSortedUnstable(_, _, _)
InsertSortedUnstable(rs, sorted, i) ==
  IF sorted = << >> THEN << i >>
  ELSE IF compare(rs[sorted[Len(sorted)]], rs[i]) >= 0
       THEN Append(InsertSortedUnstable(rs, SubSeq(sorted, 1, Len(sorted) - 1), i),
                   sorted[Len(sorted)])
       ELSE Append(sorted, i)

\* Array.prototype.sort is a stable sort (ECMAScript 2019); for short arrays
\* engines run a binary/linear insertion sort: each element moves left past
\* the elements that compare strictly greater than it.
RECURSIVE InsertSorted(_, _, _)
InsertSorted(rs, sorted, i) ==
  IF sorted = << >> THEN << i >>
  ELSE IF compare(rs[sorted[Len(sorted)]], rs[i]) > 0
       THEN Append(InsertSorted(rs, SubSeq(sorted, 1, Len(sorted) - 1), i), sorted[Len(sorted)])
       ELSE Append(sorted, i)

RECURSIVE SortPrefix(_, _)
SortPrefix(rs, n) ==
  IF n = 0 THEN << >> ELSE InsertSorted(rs, SortPrefix(rs, n - 1), n)

\* renderAdminFeed: the cards, as indices into appState.reports.
sortedReports(rs) == SortPrefix(rs, Len(rs))

\* ------------------------------------------------------------ GeoMath
\* const evacuationSites.
EvacuationSiteList ==
  << [name |-> "Evacuation Site 1", lat |-> 146000, lng |-> 1210000],
     [name |-> "Evacuation Site 2", lat |-> 146500, lng |-> 1210500],
     [name |-> "Evacuation Site 3", lat |-> 145500, lng |-> 1209500] >>

\* getDistance: R * c of the Haversine formula with R = 6371 km, evaluated in
\* IEEE-754 doubles as the script does and rounded to the millimetre, for the
\* coordinates this model uses (lat, lon in 1e-4 degree).  No trigonometry is
\* available here, so the values are tabulated; 0 exactly when the points
\* coincide.
getDistance(lat1, lon1, lat2, lon2) ==
  LET to == << lat2, lon2 >>
      from == << lat1, lon1 >>
      S1 == << 146000, 1210000 >>
      S2 == << 146500, 1210500 >>
      S3 == << 145500, 1209500 >>
  IN CASE from = << 145995, 1209842 >> ->
            (CASE to = S1 -> 1701059 [] to = S2 -> 9036171 [] to = S3 -> 6621304)
       [] from = << 146000, 1210000 >> ->
            (CASE to = S1 -> 0 [] to = S2 -> 7736338 [] to = S3 -> 7737189)
       [] from = << 146400, 1210400 >> ->
            (CASE to = S1 -> 6189139 [] to = S2 -> 1547200 [] to = S3 -> 13926328)
       [] from = << 145600, 1209600 >> ->
            (CASE to = S1 -> 6189683 [] to = S2 -> 13926022 [] to = S3 -> 1547506)
       [] from = << 147000, 1211000 >> ->
            (CASE to = S1 -> 15471823 [] to = S2 -> 7735485 [] to = S3 -> 23209012)
       [] from = << 128797, 1217740 >> ->
            (CASE to = S1 -> 208758279 [] to = S2 -> 211808544 [] to = S3 -> 205955627)

\* Site lists a deployment may configure: the script's own, the same sites in
\* another order, a list with two sites at one place, and a single site.
SiteLists ==
  LET S1 == EvacuationSiteList[1]
      S2 == EvacuationSiteList[2]
      S3 == EvacuationSiteList[3]
      S2b == [name |-> "Evacuation Site 2b", lat |-> 146500, lng |-> 1210500]
  IN { EvacuationSiteList, << S3, S2, S1 >>, << S1, S2, S2b >>, << S2b, S3, S2 >>, << S3 >> }

\* let minDistance = Infinity.
Infinity == 2000000000
\* let nearestSite = null.
NoSite == [name |-> "", lat |-> NULL, lng |-> NULL]

\* Mutant of closer: <= instead of <.
closerOrEqual(distance, minDistance) == distance <= minDistance

\* if (distance < minDistance)
closer(distance, minDistance) == distance < minDistance

\* The forEach of findNearestSite over the first n sites: the pair
\* << minDistance, nearestSite >> after them.
RECURSIVE scanSites(_, _, _, _)
scanSites(sites, n, lat, lng) ==
  IF n = 0 THEN << Infinity, NoSite >>
  ELSE LET before == scanSites(sites, n - 1, lat, lng)
           distance == getDistance(lat, lng, sites[n].lat, sites[n].lng)
       IN IF closer(distance, before[1]) THEN << distance, sites[n] >> ELSE before

findNearestSite(lat, lng) == scanSites(evacuationSites, Len(evacuationSites), lat, lng)[2]

\* renderAdminFeed: nearestSite of every card, in feed order.
routesOf(rs, cards) ==
  [p \in 1..Len(cards) |-> findNearestSite(rs[cards[p]].lat, rs[cards[p]].lng)]

\* ------------------------------------------------------------ initial state
Init ==
  /\ currentView = "user"
  /\ reports = << >>
  /\ currentUserLat = NULL
  /\ currentUserLng = NULL
  /\ currentUserAccuracy = NULL
  /\ selectedSeverityLevel = ""
  /\ currentVerificationMode = "photo"
  /\ sensorVerified = FALSE
  /\ manualMarker = NoMarker
  /\ now = 1
  /\ geoRequests = 0
  /\ sensorTimers = 0
  /\ intervals = << >>
  /\ feed = << >>
  /\ effects = Quiet
  /\ locationSource = "none"
  /\ evacuationSites = EvacuationSiteList
  /\ routes = << >>

\* ------------------------------------------------------------ actions
\* The system clock moves on by a millisecond.
ClockAdvance ==
  /\ now < MaxClock
  /\ now' = now + 1
  /\ effects' = Quiet
  /\ UNCHANGED << currentView, reports, location, form, manualMarker,
                  geoRequests, sensorTimers, intervals, feed, evacuationSites, routes >>

toggleRole ==
  /\ IF currentView = "user"
     THEN /\ currentView' = "admin"
          /\ feed' = sortedReports(reports)
          /\ routes' = routesOf(reports, feed')
          /\ effects' = [alert |-> "none", rendered |-> TRUE]
     ELSE /\ currentView' = "user"
          /\ feed' = feed
          /\ routes' = routes
          /\ effects' = Quiet
  /\ UNCHANGED << reports, location, form, manualMarker, now,
                  geoRequests, sensorTimers, intervals, evacuationSites >>

startReport ==
  /\ geoRequests < MaxGeoRequests
  /\ geoRequests' = geoRequests + 1
  /\ effects' = Quiet
  /\ UNCHANGED << currentView, reports, location, form, manualMarker, now,
                  sensorTimers, intervals, feed, evacuationSites, routes >>

\* Success callback of getCurrentPosition.
GeoSuccess(position) ==
  /\ geoRequests > 0
  /\ geoRequests' = geoRequests - 1
  /\ currentUserLat' = position.lat
  /\ currentUserLng' = position.lng
  /\ currentUserAccuracy' = position.acc
  /\ locationSource' = "auto"
  /\ effects' = Quiet
  /\ UNCHANGED << currentView, reports, form, manualMarker, now,
                  sensorTimers, intervals, feed, evacuationSites, routes >>

\* Error callback of getCurrentPosition.
GeoError ==
  /\ geoRequests > 0
  /\ geoRequests' = geoRequests - 1
  /\ effects' = Quiet
  /\ UNCHANGED << currentView, reports, location, form, manualMarker, now,
                  sensorTimers, intervals, feed, evacuationSites, routes >>

openManualLocationPicker ==
  /\ manualMarker' = [lat |-> JsOr(currentUserLat, PickerCenterLat),
                      lng |-> JsOr(currentUserLng, PickerCenterLng)]
  /\ effects' = Quiet
  /\ UNCHANGED << currentView, reports, location, form, now,
                  geoRequests, sensorTimers, intervals, feed, evacuationSites, routes >>

\* The user drags the (draggable) marker.
DragMarker(p) ==
  /\ manualMarker # NoMarker
  /\ manualMarker' = p
  /\ effects' = Quiet
  /\ UNCHANGED << currentView, reports, location, form, now,
                  geoRequests, sensorTimers, intervals, feed, evacuationSites, routes >>

\* Mutant of confirmManualLocation: the accuracy is not reset to 0.
confirmManualLocationKeepsAccuracy ==
  /\ manualMarker # NoMarker
  /\ currentUserLat' = manualMarker.lat
  /\ currentUserLng' = manualMarker.lng
  /\ locationSource' = "manual"
  /\ effects' = Quiet
  /\ UNCHANGED << currentView, reports, form, manualMarker, now, currentUserAccuracy,
                  geoRequests, sensorTimers, intervals, feed, evacuationSites, routes >>

\* manualMarker.getLatLng() throws while no marker exists; nothing is assigned then.
confirmManualLocation ==
  /\ manualMarker # NoMarker
  /\ currentUserLat' = manualMarker.lat
  /\ currentUserLng' = manualMarker.lng
  /\ currentUserAccuracy' = ManualAccuracy
  /\ locationSource' = "manual"
  /\ effects' = Quiet
  /\ UNCHANGED << currentView, reports, form, manualMarker, now,
                  geoRequests, sensorTimers, intervals, feed, evacuationSites, routes >>

selectSeverity(level) ==
  /\ selectedSeverityLevel' = level
  /\ effects' = Quiet
  /\ UNCHANGED << currentView, reports, location, currentVerificationMode, sensorVerified,
                  manualMarker, now, geoRequests, sensorTimers, intervals, feed, evacuationSites, routes >>

setVerificationMode(mode) ==
  /\ currentVerificationMode' = mode
  /\ effects' = Quiet
  /\ UNCHANGED << currentView, reports, location, selectedSeverityLevel, sensorVerified,
                  manualMarker, now, geoRequests, sensorTimers, intervals, feed, evacuationSites, routes >>

runSensorCheck ==
  /\ sensorTimers < MaxSensorTimers
  /\ sensorTimers' = sensorTimers + 1
  /\ effects' = Quiet
  /\ UNCHANGED << currentView, reports, location, form, manualMarker, now,
                  geoRequests, intervals, feed, evacuationSites, routes >>

\* The setTimeout callback of runSensorCheck.
SensorCheckDone ==
  /\ sensorTimers > 0
  /\ sensorTimers' = sensorTimers - 1
  /\ sensorVerified' = TRUE
  /\ effects' = Quiet
  /\ UNCHANGED << currentView, reports, location, selectedSeverityLevel,
                  currentVerificationMode, manualMarker, now, geoRequests, intervals, feed, evacuationSites, routes >>

\* Mutant of cancelReport: the sensor flag is reset with the form.
cancelReportResetsSensor ==
  /\ effects' = Quiet
  /\ sensorVerified' = FALSE
  /\ UNCHANGED << currentView, reports, location, selectedSeverityLevel,
                  currentVerificationMode, manualMarker, now,
                  geoRequests, sensorTimers, intervals, feed, evacuationSites, routes >>

cancelReport ==
  /\ effects' = Quiet
  /\ UNCHANGED << currentView, reports, location, form, manualMarker, now,
                  geoRequests, sensorTimers, intervals, feed, evacuationSites, routes >>

\* The object literal submitReport builds.
newReport(people, files) ==
  [ id |-> now,
    lat |-> JsOr(currentUserLat, DefaultLat),
    lng |-> JsOr(currentUserLng, DefaultLng),
    accuracy |-> JsOr(currentUserAccuracy, DefaultAccuracy),
    severity |-> selectedSeverityLevel,
    urgency |-> UrgencyOf(selectedSeverityLevel),
    people |-> people,
    status |-> "PENDING",
    verificationType |-> currentVerificationMode,
    hasPhoto |-> files > 0,
    sensorVerified |-> sensorVerified ]

\* startUserStatusListener(reportId): a new recurring timer bound to reportId.
startUserStatusListener(reportId) ==
  Append(intervals, [reportId |-> reportId, active |-> TRUE, fired |-> 0])

\* Mutant of MissingSeverity: the guard never triggers.
SeverityNeverMissing == FALSE

\* The severity guard of submitReport: TRUE when the handler returns early.
MissingSeverity == selectedSeverityLevel = ""

\* people: the value of the people-count input; files: the length of the file input.
submitReport(people, files) ==
  IF MissingSeverity
  THEN /\ effects' = [alert |-> "severity", rendered |-> FALSE]
       /\ UNCHANGED << currentView, reports, location, form, manualMarker, now,
                       geoRequests, sensorTimers, intervals, feed, evacuationSites, routes >>
  ELSE /\ Len(reports) < MaxReports
       /\ reports' = Append(reports, newReport(people, files))
       /\ intervals' = startUserStatusListener(now)
       /\ effects' = Quiet
       /\ UNCHANGED << currentView, location, form, manualMarker, now,
                       geoRequests, sensorTimers, feed, evacuationSites, routes >>

\* Mutant of updateStatus: the new status is written to every stored report.
updateStatusOfAll(id, newStatus) ==
  LET i == FindIndex(reports, id) IN
  IF i # 0
  THEN /\ reports' = [j \in 1..Len(reports) |-> [reports[j] EXCEPT !.status = newStatus]]
       /\ feed' = sortedReports(reports')
       /\ routes' = routesOf(reports', feed')
       /\ effects' = [alert |-> "dispatched", rendered |-> TRUE]
       /\ UNCHANGED << currentView, location, form, manualMarker, now,
                       geoRequests, sensorTimers, intervals, evacuationSites >>
  ELSE /\ effects' = Quiet
       /\ UNCHANGED << currentView, reports, location, form, manualMarker, now,
                       geoRequests, sensorTimers, intervals, feed, evacuationSites, routes >>

updateStatus(id, newStatus) ==
  LET i == FindIndex(reports, id) IN
  IF i # 0
  THEN /\ reports' = [reports EXCEPT ![i].status = newStatus]
       /\ feed' = sortedReports(reports')
       /\ routes' = routesOf(reports', feed')
       /\ effects' = [alert |-> "dispatched", rendered |-> TRUE]
       /\ UNCHANGED << currentView, location, form, manualMarker, now,
                       geoRequests, sensorTimers, intervals, evacuationSites >>
  ELSE /\ effects' = Quiet
       /\ UNCHANGED << currentView, reports, location, form, manualMarker, now,
                       geoRequests, sensorTimers, intervals, feed, evacuationSites, routes >>

\* The condition under which the interval callback shows the notification.
Dispatched(reportId) ==
  LET i == FindIndex(reports, reportId) IN
  i # 0 /\ reports[i].status = "DISPATCHED"

\* Mutant of Notified: clearInterval is forgotten.
NotifiedKeepsTimer(w) == [w EXCEPT !.fired = @ + 1]

\* The interval entry after a callback that found the report dispatched.
Notified(w) == [w EXCEPT !.fired = @ + 1, !.active = FALSE]

\* One run of the setInterval callback of watch k.
StatusTick(k) ==
  /\ k \in 1..Len(intervals)
  /\ intervals[k].active
  /\ intervals[k].fired < MaxFired
  /\ intervals' = IF Dispatched(intervals[k].reportId)
                  THEN [intervals EXCEPT ![k] = Notified(intervals[k])]
                  ELSE intervals
  /\ effects' = Quiet
  /\ UNCHANGED << currentView, reports, location, form, manualMarker, now,
                  geoRequests, sensorTimers, feed, evacuationSites, routes >>

\* ------------------------------------------------------------ specifications
\* The handlers form groups that meet only in submitReport, which copies the
\* form into the report.  Each specification lets the environment call one
\* group of handlers, with the state of the others as the script initialises it.

\* Dispatch: submissions, the admin's status updates, the status watches and
\* the geolocation callbacks.
NextDispatch ==
  \/ cancelReport
  \/ ClockAdvance
  \/ toggleRole
  \/ startReport
  \/ \E position \in GpsFixes : GeoSuccess(position)
  \/ GeoError
  \/ selectSeverity("high")
  \/ \E people \in PeopleValues : submitReport(people, 0)
  \/ \E id \in 1..MaxClock, newStatus \in Statuses : updateStatus(id, newStatus)
  \/ \E k \in 1..MaxReports : StatusTick(k)

SpecDispatch == Init /\ [][NextDispatch]_vars

\* Location: automatic geolocation, the manual picker and submission.
NextLocation ==
  \/ cancelReport
  \/ startReport
  \/ \E position \in GpsFixes : GeoSuccess(position)
  \/ GeoError
  \/ openManualLocationPicker
  \/ \E p \in PickedCoordinates : DragMarker(p)
  \/ confirmManualLocation
  \/ selectSeverity("high")
  \/ \E people \in PeopleValues : submitReport(people, 0)

SpecLocation == Init /\ [][NextLocation]_vars

\* Triage: severities, submissions and the admin feed.
NextTriage ==
  \/ cancelReport
  \/ ClockAdvance
  \/ toggleRole
  \/ \E level \in Severities : selectSeverity(level)
  \/ \E people \in PeopleValues : submitReport(people, 0)
  \/ \E id \in 1..MaxClock, newStatus \in Statuses : updateStatus(id, newStatus)

SpecTriage == Init /\ [][NextTriage]_vars

\* Form: the evidence tabs, the sensor check, geolocation and submission.
NextForm ==
  \/ cancelReport
  \/ startReport
  \/ \E position \in GpsFixes : GeoSuccess(position)
  \/ GeoError
  \/ selectSeverity("high")
  \/ \E mode \in VerificationModes : setVerificationMode(mode)
  \/ runSensorCheck
  \/ SensorCheckDone
  \/ \E people \in PeopleValues, files \in {0, 1} : submitReport(people, files)

SpecForm == Init /\ [][NextForm]_vars

\* ------------------------------------------------------------ claims
\* Some stored report with this id is DISPATCHED.
HasDispatched(id) ==
  \E i \in 1..Len(reports) : reports[i].id = id /\ reports[i].status = "DISPATCHED"

C2_ManualLocationIsSticky ==
  [][(/\ locationSource = "manual"
      /\ currentUserAccuracy = ManualAccuracy
      /\ \E position \in GpsFixes :
           /\ position.lat # currentUserLat \/ position.lng # currentUserLng
           /\ GeoSuccess(position)) =>
       /\ currentUserLat' = currentUserLat
       /\ currentUserLng' = currentUserLng
       /\ currentUserAccuracy' = currentUserAccuracy]_vars

\* C3 (as claimed): every stored report's status is PENDING or DISPATCHED, a
\* report is inserted PENDING, and no step takes a DISPATCHED report back to
\* PENDING.
C3_StatusNeverReverts ==
  [][/\ \A i \in 1..Len(reports') : reports'[i].status \in {"PENDING", "DISPATCHED"}
     /\ Len(reports') > Len(reports) => reports'[Len(reports')].status = "PENDING"
     /\ \A i \in 1..Len(reports) :
          reports[i].status = "DISPATCHED" => reports'[i].status = "DISPATCHED"]_vars

\* C4 (as claimed): updateStatus(id, DISPATCHED) on a report that is already
\* DISPATCHED is rejected: the store is unchanged, the feed is not rendered
\* again and no "Team dispatched" alert is raised.
C4_SecondDispatchRejected ==
  [][\A id \in 1..MaxClock :
       (HasDispatched(id) /\ updateStatus(id, "DISPATCHED")) =>
          /\ reports' = reports
          /\ effects'.alert # "dispatched"
          /\ ~effects'.rendered]_vars

\* C5: a step taken while no severity is selected never adds a report or a
\* status watch, and the submission that raises the severity prompt leaves
\* the store, the watches, the location and accuracy, the verification mode
\* and sensorVerified as they were.
C5_MissingSeverityChangesNothing ==
  [][selectedSeverityLevel = "" =>
       /\ Len(reports') = Len(reports)
       /\ Len(intervals') = Len(intervals)
       /\ effects'.alert = "severity" =>
            /\ reports' = reports
            /\ intervals' = intervals
            /\ currentUserLat' = currentUserLat
            /\ currentUserLng' = currentUserLng
            /\ currentUserAccuracy' = currentUserAccuracy
            /\ currentVerificationMode' = currentVerificationMode
            /\ sensorVerified' = sensorVerified
            /\ selectedSeverityLevel' = selectedSeverityLevel]_vars

\* C5 witness: the severity prompt was raised on a form that already holds
\* a location, a non-default verification mode and a completed sensor check.
C5_Witness ==
  /\ effects.alert = "severity"
  /\ selectedSeverityLevel = ""
  /\ reports = << >> /\ intervals = << >>
  /\ locationSource = "auto" /\ currentUserAccuracy # NULL
  /\ currentVerificationMode = "sensor"
  /\ sensorVerified

\* C6 (as claimed): a report submitted while the current location is the
\* manually confirmed one carries the picked coordinate and accuracy 0.
C6_ManualReportKeepsSentinel ==
  [][(Len(reports') = Len(reports) + 1 /\ locationSource = "manual") =>
       LET r == reports'[Len(reports')] IN
         /\ r.lat = currentUserLat
         /\ r.lng = currentUserLng
         /\ r.accuracy = ManualAccuracy]_vars

\* C7: a report submitted while no geolocation result was ever delivered and
\* no manual location was ever confirmed is stored with location
\* (14.5995, 120.9842) and accuracy 15; and every stored report has a
\* non-null latitude, longitude and accuracy.
C7_DefaultLocationWhenUnresolved ==
  [][/\ (Len(reports') = Len(reports) + 1 /\ locationSource = "none") =>
          LET r == reports'[Len(reports')] IN
            r.lat = 145995 /\ r.lng = 1209842 /\ r.accuracy = 15
     /\ \A i \in 1..Len(reports') :
          reports'[i].lat # NULL /\ reports'[i].lng # NULL /\ reports'[i].accuracy # NULL]_vars

\* C7 witness: a report was stored with the default location while the
\* geolocation request is still unanswered.
C7_Witness ==
  /\ locationSource = "none"
  /\ geoRequests > 0
  /\ \E i \in 1..Len(reports) :
       reports[i].lat = 145995 /\ reports[i].lng = 1209842 /\ reports[i].accuracy = 15

\* C8: every stored report has a severity in {low, med, high} and its urgency
\* is the table's value for that severity (high: Critical, med: Moderate,
\* low: Low), in every state, whatever was submitted, rendered or updated
\* after its insertion.
C8_UrgencyFollowsSeverity ==
  \A i \in 1..Len(reports) :
    /\ reports[i].severity \in {"low", "med", "high"}
    /\ reports[i].severity = "high" => reports[i].urgency = "Critical"
    /\ reports[i].severity = "med" => reports[i].urgency = "Moderate"
    /\ reports[i].severity = "low" => reports[i].urgency = "Low"

\* C8 witness: reports of all three severities are stored, and one of them
\* has since been dispatched.
C8_Witness ==
  /\ \E i, j, k \in 1..Len(reports) :
       /\ reports[i].severity = "low" /\ reports[i].urgency = "Low"
       /\ reports[j].severity = "med" /\ reports[j].urgency = "Moderate"
       /\ reports[k].severity = "high" /\ reports[k].urgency = "Critical"
  /\ \E i \in 1..Len(reports) : reports[i].status = "DISPATCHED"

\* Urgency rank of the feed order: Critical 3, Moderate 2, Low 1.
Rank(r) ==
  IF r.urgency = "Critical" THEN 3 ELSE IF r.urgency = "Moderate" THEN 2 ELSE 1

\* C9: the feed a handler has just rendered lists every stored report exactly
\* once, by urgency rank descending, and reports of equal urgency in their
\* insertion order.
C9_FeedIsStableSort ==
  effects.rendered =>
    /\ Len(feed) = Len(reports)
    /\ \A i \in 1..Len(reports) : \E p \in 1..Len(feed) : feed[p] = i
    /\ \A p, q \in 1..Len(feed) :
         p < q =>
           /\ Rank(reports[feed[p]]) >= Rank(reports[feed[q]])
           /\ Rank(reports[feed[p]]) = Rank(reports[feed[q]]) => feed[p] < feed[q]

\* C9 witness: the store [low, high, high] was rendered as [2, 3, 1].
C9_Witness ==
  /\ effects.rendered
  /\ Len(reports) = 3
  /\ reports[1].severity = "low"
  /\ reports[2].severity = "high"
  /\ reports[3].severity = "high"
  /\ feed = << 2, 3, 1 >>

\* C10 (as claimed): the stored reports have pairwise distinct ids.
C10_IdsAreDistinct ==
  \A i, j \in 1..Len(reports) : i # j => reports[i].id # reports[j].id

\* C11 (as claimed): cancelReport discards the form: after it the selected
\* severity, the location and accuracy, the verification mode and
\* sensorVerified hold their initial values again.
C11_CancelDiscardsForm ==
  [][cancelReport =>
       /\ selectedSeverityLevel' = ""
       /\ currentUserLat' = NULL /\ currentUserLng' = NULL /\ currentUserAccuracy' = NULL
       /\ currentVerificationMode' = "photo"
       /\ sensorVerified' = FALSE]_vars

\* Timer callbacks run whenever they are due: weak fairness of every poll tick.
PollFairness == \A k \in 1..MaxReports : WF_vars(StatusTick(k))

\* Dispatch with the poll timers running.
SpecDispatchPolling == Init /\ [][NextDispatch]_vars /\ PollFairness

\* Dispatch with the poll timers running, and with the user cancelling and
\* switching roles again and again.
SpecDispatchTeardown ==
  Init /\ [][NextDispatch]_vars /\ PollFairness
       /\ SF_vars(cancelReport) /\ SF_vars(toggleRole)

\* C12 (as claimed): a watch does not poll forever while its report stays
\* PENDING: with cancelReport and role switches happening again and again,
\* every watch eventually has its timer cleared or sees its report DISPATCHED.
C12_PendingWatchIsTerminated ==
  \A k \in 1..MaxReports :
    [](Len(intervals) >= k =>
         <>(/\ Len(intervals) >= k
            /\ ~intervals[k].active \/ HasDispatched(intervals[k].reportId)))

\* C13 (as claimed): with the poll timers running, whenever a report with a
\* watched id is DISPATCHED the watch of that id eventually shows the
\* dispatched notification; and a poll tick that runs while the report is
\* DISPATCHED shows it at once.
C13_DispatchIsEventuallyNotified ==
  /\ \A k \in 1..MaxReports :
       [](Len(intervals) >= k =>
            ((Len(intervals) >= k /\ HasDispatched(intervals[k].reportId))
               ~> (Len(intervals) >= k /\ intervals[k].fired >= 1)))
  /\ [][\A k \in 1..Len(intervals) :
          (StatusTick(k) /\ HasDispatched(intervals[k].reportId)) =>
             intervals'[k].fired = 1]_vars

\* Routing: geolocation near each site, submission and the admin feed, for
\* every configured site list.
InitRouting ==
  /\ currentView = "user"
  /\ reports = << >>
  /\ currentUserLat = NULL
  /\ currentUserLng = NULL
  /\ currentUserAccuracy = NULL
  /\ selectedSeverityLevel = ""
  /\ currentVerificationMode = "photo"
  /\ sensorVerified = FALSE
  /\ manualMarker = NoMarker
  /\ now = 1
  /\ geoRequests = 0
  /\ sensorTimers = 0
  /\ intervals = << >>
  /\ feed = << >>
  /\ effects = Quiet
  /\ locationSource = "none"
  /\ evacuationSites \in SiteLists
  /\ routes = << >>

NextRouting ==
  \/ cancelReport
  \/ toggleRole
  \/ startReport
  \/ \E position \in RoutingFixes : GeoSuccess(position)
  \/ GeoError
  \/ selectSeverity("high")
  \/ \E people \in PeopleValues : submitReport(people, 0)

SpecRouting == InitRouting /\ [][NextRouting]_vars

\* C14: for every site list and every rendered card, the site findNearestSite
\* returned for the card's report is a site of the list whose distance to the
\* report is minimal over the list, and every site listed before it is
\* strictly farther (on a tie the earliest site is returned).
C14_NearestSiteIsEarliestMinimum ==
  /\ Len(routes) = Len(feed)
  /\ \A p \in 1..Len(routes) :
       LET r == reports[feed[p]]
           d(j) == getDistance(r.lat, r.lng, evacuationSites[j].lat, evacuationSites[j].lng)
       IN \E j \in 1..Len(evacuationSites) :
            /\ routes[p] = evacuationSites[j]
            /\ \A m \in 1..Len(evacuationSites) : d(j) <= d(m)
            /\ \A m \in 1..(j - 1) : d(m) > d(j)

\* C14 witness: a card was routed to the first of two sites that lie at
\* exactly the same, minimal distance from its report, and that site is not
\* the first of the list.
C14_Witness ==
  \E p \in 1..Len(routes) :
    \E j, m \in 1..Len(evacuationSites) :
      /\ 1 < j /\ j < m
      /\ routes[p] = evacuationSites[j]
      /\ evacuationSites[m].lat = evacuationSites[j].lat
      /\ evacuationSites[m].lng = evacuationSites[j].lng
      /\ evacuationSites[m].name # evacuationSites[j].name

\* C15: a call of updateStatus whose id matches no stored report ends with an
\* error outcome shown to the caller (the handler does not end silently) and
\* leaves every stored report unchanged.
C15_UnknownIdFailsNotFound ==
  [][\A id \in 1..MaxClock, newStatus \in Statuses :
       (updateStatus(id, newStatus) /\ FindIndex(reports, id) = 0)
         => (effects'.alert # "none" /\ reports' = reports)]_vars
\* Frame: the store is filled up to its last place by submissions of the
\* initial form; from then on every handler runs, with one input each, before
\* and after the last submission.
StoreFilling == Len(reports) < MaxReports - 1

NextFrame ==
  \/ cancelReport
  \/ selectSeverity("high")
  \/ \E people \in PeopleValues : submitReport(people, 0)
  \/ ~StoreFilling /\ ClockAdvance
  \/ ~StoreFilling /\ toggleRole
  \/ ~StoreFilling /\ startReport
  \/ ~StoreFilling /\ \E position \in GpsFixes : GeoSuccess(position)
  \/ ~StoreFilling /\ openManualLocationPicker
  \/ ~StoreFilling /\ \E p \in PickedCoordinates : DragMarker(p)
  \/ ~StoreFilling /\ confirmManualLocation
  \/ ~StoreFilling /\ setVerificationMode("sensor")
  \/ ~StoreFilling /\ runSensorCheck
  \/ ~StoreFilling /\ SensorCheckDone
  \/ ~StoreFilling /\ \E id \in 1..MaxClock, newStatus \in Statuses : updateStatus(id, newStatus)

SpecFrame == Init /\ [][NextFrame]_vars

\* C16: no step removes a stored report or changes a field of a stored report
\* other than status, and a step that changes the status of a report is a
\* call updateStatus(id, s) with the id of that report, which sets that
\* report's status to s and changes the status of no other report.
C16_OnlyStatusChanges ==
  [][/\ Len(reports') >= Len(reports)
     /\ \A i \in 1..Len(reports) :
          /\ [reports'[i] EXCEPT !.status = reports[i].status] = reports[i]
          /\ reports'[i].status # reports[i].status
               => \E id \in 1..MaxClock, newStatus \in Statuses :
                    /\ updateStatus(id, newStatus)
                    /\ reports[i].id = id
                    /\ reports'[i].status = newStatus
                    /\ \A j \in 1..Len(reports) :
                         j # i => reports'[j].status = reports[j].status]_vars

\* C16 witness: one report was dispatched while another stayed PENDING, and
\* after their insertion a manual location was confirmed and a sensor check
\* completed, none of which the stored reports took over.
C16_Witness ==
  /\ locationSource = "manual"
  /\ sensorVerified
  /\ \E i, j \in 1..Len(reports) :
       /\ reports[i].status = "DISPATCHED"
       /\ reports[j].status = "PENDING"
       /\ reports[i].id # reports[j].id
       /\ ~reports[i].sensorVerified /\ ~reports[j].sensorVerified
       /\ reports[i].lat # currentUserLat /\ reports[j].lat # currentUserLat
       /\ reports[i].accuracy # currentUserAccuracy


\* C17: a confirmManualLocation that runs after an automatic geolocation
\* success leaves the current location at the picked coordinate with accuracy
\* 0; and in every state the coordinates and the accuracy come from the same
\* write: all unset, or one geolocation result, or a manual pick with
\* accuracy 0.
C17_LastAppliedWins ==
  /\ [](\/ /\ locationSource = "none"
           /\ currentUserLat = NULL /\ currentUserLng = NULL /\ currentUserAccuracy = NULL
        \/ /\ locationSource = "auto"
           /\ [lat |-> currentUserLat, lng |-> currentUserLng, acc |-> currentUserAccuracy] \in GpsFixes
        \/ /\ locationSource = "manual"
           /\ currentUserAccuracy = 0
           /\ currentUserLat # NULL /\ currentUserLng # NULL)
  /\ [][(confirmManualLocation /\ locationSource = "auto")
          => /\ currentUserLat' = manualMarker.lat
             /\ currentUserLng' = manualMarker.lng
             /\ currentUserAccuracy' = 0]_vars

\* C17 witness: a report was submitted with the geolocation result (accuracy
\* 10), and afterwards the manual pick replaced it: the current location is
\* the picked coordinate with accuracy 0.
C17_Witness ==
  /\ locationSource = "manual"
  /\ [lat |-> currentUserLat, lng |-> currentUserLng] \in PickedCoordinates
  /\ currentUserAccuracy = 0
  /\ geoRequests = 0
  /\ \E i \in 1..Len(reports) :
       [lat |-> reports[i].lat, lng |-> reports[i].lng, acc |-> reports[i].accuracy] \in GpsFixes

\* C18: the active verification mode is always one of photo, sensor and sms;
\* a submission stores the mode active at that moment as the report's
\* verification type; and a stored report carries no evidence of another
\* mode: it has a photo only if its type is photo, and it is sensor-verified
\* only if its type is sensor.
C18_OnlyActiveModeRecorded ==
  /\ [](/\ currentVerificationMode \in VerificationModes
        /\ \A i \in 1..Len(reports) :
             /\ reports[i].verificationType \in VerificationModes
             /\ reports[i].hasPhoto => reports[i].verificationType = "photo"
             /\ reports[i].sensorVerified => reports[i].verificationType = "sensor")
  /\ [][Len(reports') > Len(reports)
          => reports'[Len(reports')].verificationType = currentVerificationMode]_vars

\* C19: no step turns sensorVerified from true to false; a pending sensor-check
\* timer is removed only by its own callback, which stays enabled (so
\* cancelReport and submitReport leave it pending and it can still complete);
\* and every report inserted while sensorVerified is true records
\* sensorVerified = true.
C19_SensorVerifiedIsMonotone ==
  /\ [](sensorTimers > 0 => ENABLED SensorCheckDone)
  /\ [][/\ sensorVerified => sensorVerified'
        /\ sensorTimers' < sensorTimers => SensorCheckDone
        /\ (Len(reports') > Len(reports) /\ sensorVerified)
             => reports'[Len(reports')].sensorVerified]_vars

\* C19 witness: a report was submitted before the sensor check completed, the
\* check completed afterwards, and two later reports, one of them a photo
\* report, record sensorVerified = true.
C19_Witness ==
  /\ sensorVerified
  /\ sensorTimers = 0
  /\ Len(reports) = 3
  /\ ~reports[1].sensorVerified
  /\ reports[2].sensorVerified
  /\ reports[3].sensorVerified
  /\ reports[3].verificationType = "photo"

\* C20: the watch of a report fires only for its own report: on every step in
\* which watch k fires or stops, the k-th submitted report (the one the watch
\* was started for) is DISPATCHED; the watches of reports that are still
\* PENDING keep polling without firing.
C20_WatchesAreIndependent ==
  [][\A k \in 1..Len(intervals) :
       (intervals'[k].fired # intervals[k].fired \/ intervals'[k].active # intervals[k].active)
         => reports[k].status = "DISPATCHED"]_vars
====
